---- MODULE Spec2Model ----
(***************************************************************************)
(* Model of crab-hole's BlockList (src/src/blocklist.rs): update() builds  *)
(* a private trie from the sources of an adlist (local files, remote       *)
(* lists with an on-disk cache), stores its size in a shared atomic and    *)
(* swaps it in behind a tokio RwLock; contains() reads under the read      *)
(* lock.  The Trie and the list parser live in other modules of the crate  *)
(* (crate::trie, crate::parser); they are modelled from their contract.    *)
(***************************************************************************)
EXTENDS Naturals, Sequences, FiniteSets, TLC

(***************************************************************************)
(* Bounds of the model.                                                    *)
(***************************************************************************)
\* update() calls started in one behaviour
MaxUpdates == 2

(***************************************************************************)
(* Option<T>: None is the empty sequence, Some(x) the one-element one.     *)
(***************************************************************************)
None == <<>>

Some(x) == <<x>>

IsSome(o) == o # <<>>

Unwrap(o) == o[1]

(***************************************************************************)
(* Domains: sequences of labels in textual order ("x.a.com" is             *)
(* <<"x","a","com">>).                                                     *)
(***************************************************************************)
dA == <<"a", "com">>

dXA == <<"x", "a", "com">>

dB == <<"b", "net">>

Domains == {dA, dXA, dB}

RECURSIVE Reverse(_)
Reverse(s) == IF s = <<>> THEN <<>> ELSE Reverse(Tail(s)) \o <<Head(s)>>

Prefixes(p) == {SubSeq(p, 1, k) : k \in 0..Len(p)}

(***************************************************************************)
(* crate::trie::Trie, from its contract: nodes are the label paths read    *)
(* most-significant label first, term the paths where a domain ends, slack *)
(* whether node storage is over-allocated (what shrink_to_fit reclaims).   *)
(***************************************************************************)
TrieNew == [nodes |-> {<<>>}, term |-> {}, slack |-> FALSE]

TrieInsert(t, d) ==
    [nodes |-> t.nodes \cup Prefixes(Reverse(d)),
     term  |-> t.term \cup {Reverse(d)},
     slack |-> TRUE]

TrieShrink(t) == [t EXCEPT !.slack = FALSE]

TrieLen(t) == Cardinality(t.term)

\* One step of the walk of contains(): from node `at` with `left` labels
\* still to walk.  The result is <<"match">>, <<"miss">> or <<"go", child>>.
TrieWalk(t, at, left, inc) ==
    IF left = <<>>
    THEN IF at \in t.term THEN <<"match">> ELSE <<"miss">>
    ELSE IF inc /\ at \in t.term THEN <<"match">>
    ELSE IF Append(at, Head(left)) \in t.nodes
         THEN <<"go", Append(at, Head(left))>>
         ELSE <<"miss">>

RECURSIVE TrieContainsFrom(_, _, _, _)
TrieContainsFrom(t, at, left, inc) ==
    LET w == TrieWalk(t, at, left, inc)
    IN  IF w[1] = "go" THEN TrieContainsFrom(t, w[2], Tail(left), inc)
        ELSE w[1] = "match"

TrieContains(t, d, inc) == TrieContainsFrom(t, <<>>, Reverse(d), inc)

\* The domains a trie holds, in textual order.
TrieDomains(t) == {Reverse(p) : p \in t.term}

RECURSIVE InsertAll(_, _)
InsertAll(t, entries) ==
    IF entries = <<>> THEN t
    ELSE InsertAll(TrieInsert(t, Head(entries)), Tail(entries))

(***************************************************************************)
(* Raw list texts and crate::parser::Blocklist::parse, from its contract:  *)
(* a text parses to a sequence of domain entries or fails.                 *)
(***************************************************************************)
EmptyText == "empty"

Texts == {"listA", "listAB", "garbage", EmptyText}

Parse(text) ==
    CASE text = "listA"   -> [ok |-> TRUE,  entries |-> <<dA>>]
      [] text = "listAB"  -> [ok |-> TRUE,  entries |-> <<dXA, dB, dXA>>]
      [] text = EmptyText -> [ok |-> TRUE,  entries |-> <<>>]
      [] OTHER            -> [ok |-> FALSE, entries |-> <<>>]

Range(s) == {s[k] : k \in 1..Len(s)}

(***************************************************************************)
(* Source locators (url::Url): scheme, host, path and optional query, the  *)
(* path and the query as sequences of characters.                          *)
(***************************************************************************)
urlFile == [scheme |-> "file", host |-> "", path |-> <<"/", "l">>, query |-> None]

urlA == [scheme |-> "https", host |-> "h1", path |-> <<"/", "a", "/", "b">>, query |-> None]

urlRoot == [scheme |-> "https", host |-> "h1", path |-> <<"/">>, query |-> None]

urlQ == [scheme |-> "https", host |-> "h1", path |-> <<"/", "a", "/", "b">>, query |-> Some(<<"q">>)]

\* the path and query of urlA on another host
urlB == [scheme |-> "https", host |-> "h2", path |-> <<"/", "a", "/", "b">>, query |-> None]

\* a locator without authority: its path is opaque and has no leading "/"
urlOpaque == [scheme |-> "data", host |-> "", path |-> <<"x", "y">>, query |-> None]

Urls == {urlFile, urlA, urlRoot, urlQ, urlB, urlOpaque}

ReplaceSlash(s) == [k \in 1..Len(s) |-> IF s[k] = "/" THEN "-" ELSE s[k]]

RemoveFirst(s) == IF s # <<>> THEN Tail(s) ELSE s

\* Faulty variant: the host is part of the name.
CacheNameWithHost(url) ==
    LET p == <<url.host>> \o RemoveFirst(ReplaceSlash(url.path))
    IN  IF IsSome(url.query) THEN p \o <<"-", "-">> \o Unwrap(url.query) ELSE p

\* The cache file name of a remote locator, below LIST_DIR.
CacheName(url) ==
    LET p == RemoveFirst(ReplaceSlash(url.path))
    IN  IF IsSome(url.query) THEN p \o <<"-", "-">> \o Unwrap(url.query) ELSE p

CacheNames == {CacheName(u) : u \in {v \in Urls : v.scheme # "file"}}

(***************************************************************************)
(* The environment of update(): the adlists a caller passes, what a local  *)
(* file read and a network request can return.                             *)
(***************************************************************************)
\* adlists passed while update() calls overlap, and in sequential runs
ConcLists == {<<urlFile>>, <<urlA>>}

SeqLists ==
    {<<urlFile, urlA>>, <<urlA, urlFile>>, <<urlRoot, urlA>>, <<urlQ, urlA>>,
     <<urlA, urlB>>, <<urlOpaque, urlA>>}

\* read_to_string of a local file: Some(text), or None when it fails
FileReads == {None, Some("listA"), Some("garbage")}

\* CLIENT.get(url).send(): a transport error, a non-success status (with an
\* error page as body) or a success with the list as body
Responses ==
    {[kind |-> "transport", body |-> EmptyText],
     [kind |-> "status", body |-> "garbage"],
     [kind |-> "ok", body |-> "listAB"],
     [kind |-> "ok", body |-> "garbage"]}

\* what send() can return for a locator: the client only speaks http(s),
\* any other scheme is a request error
ResponsesFor(url) ==
    IF url.scheme \in {"http", "https"} THEN Responses
    ELSE {resp \in Responses : resp.kind = "transport"}

Updaters == {"u1", "u2"}

Readers == {"r1"}

Queries == {dXA}

VARIABLES
    trie,      \* BlockList.trie: the Trie inside the RwLock
    wlock,     \* the RwLock's write guard: Some(updater) while it is held
    rlock,     \* the readers holding a read guard
    count,     \* blocklist_len, the shared AtomicUsize
    fs,        \* the cache files below LIST_DIR: name -> Option<content>
    dirOk,     \* whether the directory LIST_DIR exists
    upd,       \* per update() task: its position and locals
    rd,        \* per contains() task: its position and locals
    ncalls,    \* update() calls started
    hist       \* history of the swaps (not program state)

vars == <<trie, wlock, rlock, count, fs, dirOk, upd, rd, ncalls, hist>>

FileNames == CacheNames \ {<<>>}

\* Path::exists of LIST_DIR.join(name): the empty name is LIST_DIR itself.
PathExists(f, dir, name) == IF name = <<>> THEN dir ELSE IsSome(f[name])

\* What the current source's record starts as (history of the resolution).
\* fetches/kind/body: the network requests made and the last response;
\* existed/before: the cache file at the first check; fell: the cache file
\* existed at the fallback check; reads: cache reads; via: where the
\* content came from; name: the cache file name used; wres: how the cache
\* write ended.
NoSource ==
    [fetches |-> 0, kind |-> "none", body |-> None, existed |-> FALSE,
     before |-> None, fell |-> FALSE, reads |-> 0, via |-> "none",
     name |-> <<>>, wres |-> "none"]

IdleUpd ==
    [pc |-> "idle", adl |-> <<>>, rfc |-> FALSE, idx |-> 1, ltrie |-> TrieNew,
     raw |-> None, body |-> None, cid |-> 0, contrib |-> {}, warned |-> FALSE,
     cur |-> NoSource, log |-> <<>>, swaps |-> 0]

IdleRd ==
    [pc |-> "idle", q |-> dA, inc |-> FALSE, at |-> <<>>, left |-> <<>>,
     res |-> FALSE, snap |-> TrieNew, after |-> 0]

\* The state after BlockList::new(), with no cache yet; `trace` says whether
\* the history of each source's resolution is recorded.
InitState(trace) ==
    /\ trie = TrieNew
    /\ wlock = None
    /\ rlock = {}
    /\ count = 0
    /\ fs = [n \in FileNames |-> None]
    /\ dirOk = FALSE
    /\ upd = [u \in Updaters |-> IdleUpd]
    /\ rd = [r \in Readers |-> IdleRd]
    /\ ncalls = 0
    /\ hist = [lastSwap |-> 0, lastBuilt |-> TrieNew, lastContrib |-> {},
               returned |-> TRUE, overlapped |-> FALSE, prev |-> TrieNew,
               trace |-> trace]

Init == InitState(FALSE)

InitSeq == InitState(TRUE)

\* A source's history record, kept only when histories are recorded.
Rec(c) == IF hist.trace THEN c ELSE NoSource

(***************************************************************************)
(* update(): one action per await point or access to shared state.         *)
(***************************************************************************)
AllIdle == \A u \in Updaters : upd[u].pc = "idle"

\* Faulty variant: a local file is resolved like a remote source.
SourcePcAllRemote(adl, i) == IF i > Len(adl) THEN "store" ELSE "exists1"

\* Where the for loop over adlist goes for source i: the file branch, the
\* remote branch, or past the loop.
SourcePc(adl, i) ==
    IF i > Len(adl) THEN "store"
    ELSE IF adl[i].scheme = "file" THEN "readfile" ELSE "exists1"

\* Faulty variant: a source that gave no parsed list is tried again.
NextIndexRetry(i, n, ok) == IF ok THEN i + 1 ELSE i

\* Faulty variant: a source that fails ends the loop.
NextIndexAbort(i, n, ok) == IF ok THEN i + 1 ELSE n + 1

\* `for url in adlist`: the loop moves to the next of the n sources whatever
\* the outcome `ok` of source i (no break, no return in the loop body).
NextIndex(i, n, ok) == i + 1

\* Faulty variant: the download is made even when restoring from the cache.
NeedsFetchAlways(exists, rfc) == TRUE

\* `!path.exists() || !restore_from_cache`: whether to download.
NeedsFetch(exists, rfc) == ~exists \/ ~rfc

\* Faulty variant: error_for_status() left out, an error page is a body.
FetchSucceededNoStatusCheck(resp) == resp.kind # "transport"

\* `.send().await?.error_for_status()?.text().await?`: only a success
\* response yields a body.

FetchSucceeded(resp) == resp.kind = "ok"

\* Faulty variant: no fallback to the cache file.
UseCacheNever(exists) == FALSE

\* `if path.exists()` before the cache is read: fall back when it exists.

UseCache(exists) == exists

CacheContent(f, name) == IF name = <<>> THEN None ELSE f[name]

\* How write(&path, &resp) can end: "ok", or a failure before ("fail") or
\* after ("trunc") the file was opened.
WriteHows(dir, name) == IF dir /\ name # <<>> THEN {"ok", "trunc", "fail"} ELSE {"fail"}

\* Faulty variant: a body that does not parse is not written to the cache.
WriteResultIfParses(f, name, b, how) ==
    IF how = "ok" /\ Parse(b).ok THEN [f EXCEPT ![name] = Some(b)] ELSE f

\* The file system write(&path, &resp) leaves when it ends as `how`.
WriteResult(f, name, b, how) ==
    CASE how = "ok"    -> [f EXCEPT ![name] = Some(b)]
      [] how = "trunc" -> [f EXCEPT ![name] = Some(EmptyText)]
      [] OTHER         -> f

\* write(&path, &resp): the file systems it can leave.  It fails when the
\* directory is missing or the path is the directory itself; a failure
\* after the file was opened leaves it truncated.
WriteOutcomes(f, dir, name, b) ==
    {WriteResult(f, name, b, how) : how \in WriteHows(dir, name)}

\* Faulty variant: the body is dropped when it could not be cached.
ContentAfterWriteIfCached(b, how) == IF how = "ok" THEN Some(b) ELSE None

\* `Ok(resp)` after the write, whose error is only logged: the fetched body
\* is the source's content however the write ended.
ContentAfterWrite(b, how) == Some(b)

\* Faulty variant: a cache read that failed is followed by a download.
ReadCacheNextPcRefetch(out) == IF IsSome(out) THEN "parse" ELSE "fetch"

\* After the cache read, Ok or Err, the source's resolution is over.
ReadCacheNextPc(out) == "parse"

\* Faulty variant: subdomains are matched whatever the caller asked for.
IncludeSubdomainsAlways(inc) == TRUE

\* `.contains(domain, include_subdomains)`: the flag is passed as given.
IncludeSubdomains(inc) == inc

\* Faulty variant: the guard is not released.
GuardAfterDropKept(w) == w

\* drop(guard): the write guard is released.
GuardAfterDrop(w) == None

\* read_to_string(&path) of the cache file: Some(content), or None when the
\* read fails (always, when the path is the directory itself).
CacheReads(f, name) == IF name = <<>> THEN {None} ELSE {None, f[name]}

\* Faulty variant: a write guard granted while read guards are held.
CanWriteIgnoringReaders(w, rs) == w = None

\* self.trie.write(): granted when no guard, read or write, is held.

CanWrite(w, rs) == w = None /\ rs = {}

\* self.trie.read(): granted when no write guard is held.  (tokio's RwLock
\* also queues a reader behind a waiting writer; that order only removes
\* interleavings.)
CanRead(w) == w = None

\* Faulty variants of the swap: the new entries merged into the old
\* snapshot, an empty result not published, the assignment left out.
SwapTrieMerge(old, new) ==
    [nodes |-> old.nodes \cup new.nodes, term |-> old.term \cup new.term,
     slack |-> new.slack]

SwapTrieKeepIfEmpty(old, new) == IF new.term = {} THEN old ELSE new

SwapTrieForgotten(old, new) == old

\* `*guard = trie`: the new trie replaces the snapshot.
SwapTrie(old, new) == new

\* Faulty variant: the trie's nodes counted instead of its entries.
BlockedCountNodes(t) == Cardinality(t.nodes) - 1

\* `let blocked_count = trie.len()`: the number stored in blocklist_len.
BlockedCount(t) == TrieLen(t)

Call(u, lists) ==
    /\ upd[u].pc = "idle"
    /\ ncalls < MaxUpdates
    /\ \E l \in lists, r \in BOOLEAN :
         upd' = [upd EXCEPT ![u] = [IdleUpd EXCEPT !.pc = "mkdir", !.adl = l,
                                               !.rfc = r, !.cid = ncalls + 1]]
    /\ ncalls' = ncalls + 1
    /\ hist' = [hist EXCEPT !.overlapped = @ \/ ~AllIdle]
    /\ UNCHANGED <<trie, wlock, rlock, count, fs, dirOk, rd>>

MkDir(u) ==
    /\ upd[u].pc = "mkdir"
    /\ \E ok \in (IF dirOk THEN {TRUE} ELSE BOOLEAN) : dirOk' = ok
    /\ upd' = [upd EXCEPT ![u].ltrie = TrieNew,
                          ![u].pc = SourcePc(upd[u].adl, 1)]
    /\ UNCHANGED <<trie, wlock, rlock, count, fs, rd, ncalls, hist>>

ReadFile(u) ==
    /\ upd[u].pc = "readfile"
    /\ \E out \in FileReads :
         upd' = [upd EXCEPT ![u].raw = out,
                            ![u].cur = Rec([NoSource EXCEPT !.via = IF IsSome(out) THEN "file" ELSE "none"]),
                            ![u].pc = "parse"]
    /\ UNCHANGED <<trie, wlock, rlock, count, fs, dirOk, rd, ncalls, hist>>

Exists1(u) ==
    LET name == CacheName(upd[u].adl[upd[u].idx])
        ex   == PathExists(fs, dirOk, name)
    IN  /\ upd[u].pc = "exists1"
        /\ upd' = [upd EXCEPT ![u].cur = Rec([NoSource EXCEPT !.existed = ex,
                                                              !.before = CacheContent(fs, name),
                                                              !.name = name]),
                              ![u].raw = None,
                              ![u].body = None,
                              ![u].pc = IF NeedsFetch(ex, upd[u].rfc) THEN "fetch" ELSE "exists2"]
        /\ UNCHANGED <<trie, wlock, rlock, count, fs, dirOk, rd, ncalls, hist>>

Fetch(u) ==
    /\ upd[u].pc = "fetch"
    /\ \E resp \in ResponsesFor(upd[u].adl[upd[u].idx]) :
         upd' = [upd EXCEPT ![u].cur = Rec([@ EXCEPT !.fetches = @ + 1, !.kind = resp.kind,
                                                     !.body = Some(resp.body)]),
                            ![u].body = IF FetchSucceeded(resp) THEN Some(resp.body) ELSE None,
                            ![u].pc = IF FetchSucceeded(resp) THEN "write" ELSE "exists2"]
    /\ UNCHANGED <<trie, wlock, rlock, count, fs, dirOk, rd, ncalls, hist>>

Write(u) ==
    LET name == CacheName(upd[u].adl[upd[u].idx])
        b    == Unwrap(upd[u].body)
    IN  /\ upd[u].pc = "write"
        /\ \E how \in WriteHows(dirOk, name) :
             /\ fs' = WriteResult(fs, name, b, how)
             /\ upd' = [upd EXCEPT ![u].raw = ContentAfterWrite(b, how),
                                   ![u].cur = Rec([@ EXCEPT !.wres = how,
                                                            !.via = IF IsSome(ContentAfterWrite(b, how))
                                                                    THEN "fetch" ELSE "none"]),
                                   ![u].pc = "parse"]
        /\ UNCHANGED <<trie, wlock, rlock, count, dirOk, rd, ncalls, hist>>

Exists2(u) ==
    LET name == CacheName(upd[u].adl[upd[u].idx])
    IN  /\ upd[u].pc = "exists2"
        /\ upd' = [upd EXCEPT ![u].cur = Rec([@ EXCEPT !.fell = PathExists(fs, dirOk, name)]),
                              ![u].pc = IF UseCache(PathExists(fs, dirOk, name))
                                        THEN "readcache" ELSE "parse"]
        /\ UNCHANGED <<trie, wlock, rlock, count, fs, dirOk, rd, ncalls, hist>>

ReadCache(u) ==
    LET name == CacheName(upd[u].adl[upd[u].idx])
    IN  /\ upd[u].pc = "readcache"
        /\ \E out \in CacheReads(fs, name) :
             upd' = [upd EXCEPT ![u].raw = out,
                                ![u].cur = Rec([@ EXCEPT !.reads = @ + 1,
                                                         !.via = IF IsSome(out) THEN "cache" ELSE "none"]),
                                ![u].pc = ReadCacheNextPc(out)]
        /\ UNCHANGED <<trie, wlock, rlock, count, fs, dirOk, rd, ncalls, hist>>

\* `match raw_list`: skip, or parse and insert every entry; then the loop
\* goes on.
ParseInsert(u) ==
    LET s    == upd[u]
        url  == s.adl[s.idx]
        p    == IF IsSome(s.raw) THEN Parse(Unwrap(s.raw))
                ELSE [ok |-> FALSE, entries |-> <<>>]
        i    == NextIndex(s.idx, Len(s.adl), p.ok)
        rec  == [url |-> url, cur |-> s.cur, raw |-> s.raw, ok |-> p.ok,
                 entries |-> IF p.ok THEN p.entries ELSE <<>>,
                 after |-> IF url.scheme = "file" THEN None
                           ELSE CacheContent(fs, CacheName(url))]
    IN  /\ s.pc = "parse"
        /\ upd' = [upd EXCEPT ![u].ltrie = IF p.ok THEN InsertAll(s.ltrie, p.entries) ELSE s.ltrie,
                              ![u].contrib = IF p.ok THEN @ \cup Range(p.entries) ELSE @,
                              ![u].log = IF hist.trace THEN Append(@, rec) ELSE @,
                              ![u].raw = None,
                              ![u].body = None,
                              ![u].cur = NoSource,
                              ![u].idx = i,
                              ![u].pc = SourcePc(s.adl, i)]
        /\ UNCHANGED <<trie, wlock, rlock, count, fs, dirOk, rd, ncalls, hist>>

\* shrink_to_fit, len, blocklist_len.store, and the warning when empty.
Store(u) ==
    /\ upd[u].pc = "store"
    /\ count' = BlockedCount(TrieShrink(upd[u].ltrie))
    /\ upd' = [upd EXCEPT ![u].ltrie = TrieShrink(@),
                          ![u].warned = BlockedCount(TrieShrink(upd[u].ltrie)) = 0,
                          ![u].pc = "wlock"]
    /\ UNCHANGED <<trie, wlock, rlock, fs, dirOk, rd, ncalls, hist>>

WriteLock(u) ==
    /\ upd[u].pc = "wlock"
    /\ CanWrite(wlock, rlock)
    /\ wlock' = Some(u)
    /\ upd' = [upd EXCEPT ![u].pc = "assign"]
    /\ UNCHANGED <<trie, rlock, count, fs, dirOk, rd, ncalls, hist>>

Assign(u) ==
    /\ upd[u].pc = "assign"
    /\ trie' = SwapTrie(trie, upd[u].ltrie)
    /\ hist' = [hist EXCEPT !.lastSwap = upd[u].cid, !.lastBuilt = upd[u].ltrie,
                            !.lastContrib = upd[u].contrib, !.returned = FALSE,
                            !.prev = IF hist.trace THEN trie ELSE @]
    /\ upd' = [upd EXCEPT ![u].pc = "drop", ![u].swaps = @ + 1]
    /\ UNCHANGED <<wlock, rlock, count, fs, dirOk, rd, ncalls>>

Drop(u) ==
    /\ upd[u].pc = "drop"
    /\ wlock' = GuardAfterDrop(wlock)
    /\ upd' = [upd EXCEPT ![u].pc = "finish"]
    /\ UNCHANGED <<trie, rlock, count, fs, dirOk, rd, ncalls, hist>>

Finish(u) ==
    /\ upd[u].pc = "finish"
    /\ upd' = [upd EXCEPT ![u] = IdleUpd]
    /\ hist' = [hist EXCEPT !.returned = @ \/ hist.lastSwap = upd[u].cid]
    /\ UNCHANGED <<trie, wlock, rlock, count, fs, dirOk, rd, ncalls>>

(***************************************************************************)
(* contains(): read guard, the trie's walk label by label, guard dropped.  *)
(***************************************************************************)
StartContains(r) ==
    /\ rd[r].pc = "idle"
    /\ \E q \in Queries, inc \in BOOLEAN :
         rd' = [rd EXCEPT ![r] = [IdleRd EXCEPT !.pc = "rlock", !.q = q, !.inc = inc,
                                               !.after = IF hist.returned THEN hist.lastSwap ELSE 0]]
    /\ UNCHANGED <<trie, wlock, rlock, count, fs, dirOk, upd, ncalls, hist>>

ReadLock(r) ==
    /\ rd[r].pc = "rlock"
    /\ CanRead(wlock)
    /\ rlock' = rlock \cup {r}
    /\ rd' = [rd EXCEPT ![r].pc = "walk", ![r].at = <<>>, ![r].left = Reverse(rd[r].q),
                        ![r].snap = trie]
    /\ UNCHANGED <<trie, wlock, count, fs, dirOk, upd, ncalls, hist>>

Walk(r) ==
    LET w == TrieWalk(trie, rd[r].at, rd[r].left, IncludeSubdomains(rd[r].inc))
    IN  /\ rd[r].pc = "walk"
        /\ rd' = IF w[1] = "go"
                 THEN [rd EXCEPT ![r].at = w[2], ![r].left = Tail(@)]
                 ELSE [rd EXCEPT ![r].res = (w[1] = "match"), ![r].pc = "unlock"]
        /\ UNCHANGED <<trie, wlock, rlock, count, fs, dirOk, upd, ncalls, hist>>

Unlock(r) ==
    /\ rd[r].pc = "unlock"
    /\ rlock' = rlock \ {r}
    /\ rd' = [rd EXCEPT ![r] = IdleRd]
    /\ UNCHANGED <<trie, wlock, count, fs, dirOk, upd, ncalls, hist>>

UpdateStep(u) ==
    \/ MkDir(u) \/ ReadFile(u) \/ Exists1(u) \/ Fetch(u) \/ Write(u)
    \/ Exists2(u) \/ ReadCache(u) \/ ParseInsert(u) \/ Store(u)
    \/ WriteLock(u) \/ Assign(u) \/ Drop(u) \/ Finish(u)

\* update() calls that may overlap, with contains() calls.
Next ==
    \/ \E u \in Updaters : Call(u, ConcLists) \/ UpdateStep(u)
    \/ \E r \in Readers : StartContains(r) \/ ReadLock(r) \/ Walk(r) \/ Unlock(r)

Spec == Init /\ [][Next]_vars

\* update() calls one after the other (the caller awaits each).
NextSeq ==
    \E u \in {"u1"} : (AllIdle /\ Call(u, SeqLists)) \/ UpdateStep(u)

SpecSeq == InitSeq /\ [][NextSeq]_vars

(***************************************************************************)
(* Claims about overlapping update() and contains() calls (Spec).          *)
(***************************************************************************)
Reading(r) == rd[r].pc \in {"walk", "unlock"}

\* C1: a contains() call holds the read guard for its whole walk, during
\* which no write guard is held and the snapshot stays the compacted trie it
\* found when it got the guard; its answer is the answer of that one trie.
C1_ReadsOneGeneration ==
    \A r \in Readers :
        /\ Reading(r) =>
             /\ r \in rlock
             /\ wlock = None
             /\ trie = rd[r].snap
             /\ ~rd[r].snap.slack
        /\ rd[r].pc = "unlock" =>
             rd[r].res = TrieContains(rd[r].snap, rd[r].q, rd[r].inc)

\* C1 witness: a contains() call answered "blocked" while an update() with a
\* different, fully built trie waits for the write guard.
C1_Witness ==
    \E r \in Readers, u \in Updaters :
        /\ rd[r].pc = "unlock"
        /\ rd[r].res
        /\ upd[u].pc = "wlock"
        /\ upd[u].ltrie # trie

\* C2 as stated: in every state, also in the middle of an update(), the
\* published count is the number of domains of the current snapshot.
C2_CountMatchesSnapshot == count = TrieLen(trie)

\* C3: a contains() call that starts after an update() returned, with no
\* other swap since that update()'s own, reads the trie that update() built.
C3_ReturnedUpdateVisible ==
    \A r \in Readers :
        (Reading(r) /\ rd[r].after # 0 /\ rd[r].after = hist.lastSwap) =>
            /\ rd[r].snap = hist.lastBuilt
            /\ rd[r].pc = "unlock" =>
                 rd[r].res = TrieContains(hist.lastBuilt, rd[r].q, rd[r].inc)

\* C3 witness: such a call, answered "blocked" from a returned update()'s
\* trie while another update() is already building.
C3_Witness ==
    \E r \in Readers :
        /\ rd[r].pc = "unlock"
        /\ rd[r].after # 0
        /\ rd[r].after = hist.lastSwap
        /\ rd[r].res
        /\ ~AllIdle

\* C4: after overlapping update() calls have all returned, the snapshot is
\* the trie built by the call that swapped last and holds exactly the
\* domains that call parsed.
C4_LastSwapWins ==
    (AllIdle /\ hist.overlapped) =>
        /\ trie = hist.lastBuilt
        /\ TrieDomains(trie) = hist.lastContrib

\* C4 witness: two overlapping calls returned; the snapshot is the one-domain
\* trie of the last swap, the two-domain trie of the other call is gone.
C4_Witness ==
    /\ AllIdle
    /\ hist.overlapped
    /\ ncalls = 2
    /\ hist.lastSwap = 1
    /\ TrieDomains(trie) = {dA}
    /\ count = 2

\* C5 as stated: when every update() has returned, the published count is
\* the number of domains of the current snapshot.
C5_QuiescentCountMatches == AllIdle => count = TrieLen(trie)

(***************************************************************************)
(* Claims about one update() at a time (SpecSeq), over the history of the  *)
(* resolution of each source of the running call.                          *)
(***************************************************************************)
Remote(rec) == rec.url.scheme # "file"

\* the network request of the source failed: transport error or non-success
FetchFailed(rec) == Remote(rec) /\ rec.cur.kind \in {"status", "transport"}

\* the entries a text contributes: those it parses to, none when there is
\* no text or it does not parse
EntriesOfText(o) ==
    IF IsSome(o) /\ Parse(Unwrap(o)).ok THEN Parse(Unwrap(o)).entries ELSE <<>>

\* update() has replaced the snapshot and dropped the guard: it returns
Finished(u) == upd[u].pc = "finish"

LoopDone(u) == upd[u].pc \in {"store", "wlock", "assign", "drop", "finish"}

Records(u) == {upd[u].log[k] : k \in 1..Len(upd[u].log)}

\* C6 as stated: after a failed fetch, an existing cache file is the source's
\* content and its domains are published; without one the source is skipped.
C6_FetchFailureUsesCache ==
    \A u \in Updaters : \A rec \in Records(u) :
        FetchFailed(rec) =>
            IF rec.cur.fell
            THEN /\ IsSome(rec.raw)
                 /\ rec.raw = rec.cur.before
                 /\ Finished(u) => Range(EntriesOfText(rec.raw)) \subseteq TrieDomains(trie)
            ELSE rec.raw = None /\ rec.entries = <<>>

\* C6 amended: after a failed fetch, an existing cache file is read once; if
\* the read succeeds its content is the source's content and its domains are
\* published; if there is no cache file or the read fails, the source
\* yields no content and is skipped.
C6_FetchFailureReadsCache ==
    \A u \in Updaters : \A rec \in Records(u) :
        FetchFailed(rec) =>
            /\ rec.cur.reads = IF rec.cur.fell THEN 1 ELSE 0
            /\ rec.cur.via = "cache" =>
                 /\ rec.cur.fell
                 /\ IsSome(rec.raw)
                 /\ rec.raw = rec.cur.before
                 /\ Finished(u) => Range(EntriesOfText(rec.raw)) \subseteq TrieDomains(trie)
            /\ rec.cur.via # "cache" => rec.raw = None /\ rec.entries = <<>>

\* C6 witness: a call returns whose source's fetch failed and whose cache
\* file, written by an earlier call, supplied the published domains.
C6_Witness ==
    \E u \in Updaters : \E rec \in Records(u) :
        /\ Finished(u)
        /\ FetchFailed(rec)
        /\ rec.cur.via = "cache"
        /\ rec.entries # <<>>
        /\ TrieContains(trie, dXA, FALSE)

\* One step, for C7: the cache files change only in the write that follows
\* the successful (and only) fetch of the running source, and only that
\* source's file; a source recorded with a fetch that did not succeed has
\* its cache file as it found it.
C7_Step ==
    /\ fs' # fs =>
         \E u \in Updaters :
             /\ upd[u].pc = "write"
             /\ upd[u].cur.kind = "ok"
             /\ upd[u].cur.fetches = 1
             /\ \A n \in FileNames \ {CacheName(upd[u].adl[upd[u].idx])} : fs'[n] = fs[n]
    /\ \A u \in Updaters : \A k \in 1..Len(upd'[u].log) :
         (Remote(upd'[u].log[k]) /\ upd'[u].log[k].cur.kind # "ok") =>
             upd'[u].log[k].after = upd'[u].log[k].cur.before

\* C7: across update() calls, a step changes a cache file only if it is the
\* write that follows a successful fetch of that file's source in the same
\* update(); a source whose fetch fails leaves its cache file, existence and
\* content, as it found it.
C7_CacheWrittenOnlyAfterFetch == [][C7_Step]_vars

\* C7 witness: a source processed with a failed fetch and its cache file,
\* which the source before it in the list did not touch, still in place.
C7_Witness ==
    \E u \in Updaters : \E rec \in Records(u) :
        /\ FetchFailed(rec)
        /\ IsSome(rec.cur.before)
        /\ rec.after = rec.cur.before

\* C8 as stated: with restore_from_cache and an existing cache file there is
\* no network request and the source contributes what a successful fetch of
\* the same content contributes, namely the entries the content parses to.
C8_RestoreEqualsFetch ==
    \A u \in Updaters : \A rec \in Records(u) :
        /\ (Remote(rec) /\ upd[u].rfc /\ rec.cur.existed) =>
             /\ rec.cur.fetches = 0
             /\ rec.entries = EntriesOfText(rec.cur.before)
        /\ (Remote(rec) /\ rec.cur.kind = "ok") =>
             rec.entries = EntriesOfText(rec.cur.body)

\* C8 amended: with restore_from_cache and an existing cache file there is
\* no network request, and if the cache file is read successfully the
\* source contributes what a successful fetch of the same content does.
C8_RestoreReadEqualsFetch ==
    \A u \in Updaters : \A rec \in Records(u) :
        /\ (Remote(rec) /\ upd[u].rfc /\ rec.cur.existed) =>
             /\ rec.cur.fetches = 0
             /\ rec.cur.via = "cache" => rec.entries = EntriesOfText(rec.cur.before)
             /\ rec.cur.via # "cache" => rec.entries = <<>>
        /\ (Remote(rec) /\ rec.cur.kind = "ok") =>
             rec.entries = EntriesOfText(rec.cur.body)

\* C8 witness: a restore that read "listAB" from the cache without a network
\* request and contributed its entries.
C8_Witness ==
    \E u \in Updaters : \E rec \in Records(u) :
        /\ upd[u].rfc
        /\ rec.cur.existed
        /\ rec.cur.fetches = 0
        /\ rec.cur.via = "cache"
        /\ rec.raw = Some("listAB")
        /\ rec.entries = <<dXA, dB, dXA>>

\* C9: every source of the adlist is processed in order; one that yields no
\* content or does not parse contributes nothing; the built trie, and the
\* snapshot once update() returns, hold exactly the domains of the sources
\* that resolved and parsed.
C9_FailuresAreLocal ==
    \A u \in Updaters :
        LoopDone(u) =>
            LET log == upd[u].log
                all == UNION {Range(EntriesOfText(log[k].raw)) : k \in 1..Len(log)}
            IN  /\ Len(log) = Len(upd[u].adl)
                /\ \A k \in 1..Len(log) :
                     /\ log[k].url = upd[u].adl[k]
                     /\ (log[k].raw = None \/ ~Parse(Unwrap(log[k].raw)).ok) =>
                          log[k].entries = <<>>
                /\ TrieDomains(upd[u].ltrie) = all
                /\ Finished(u) => TrieDomains(trie) = all

\* C9 witness: a call returns whose first source failed and whose second
\* source supplied the snapshot's domains.
C9_Witness ==
    \E u \in Updaters :
        /\ Finished(u)
        /\ Len(upd[u].log) = 2
        /\ upd[u].log[1].entries = <<>>
        /\ ~upd[u].log[1].ok
        /\ upd[u].log[2].entries # <<>>
        /\ TrieDomains(trie) = Range(upd[u].log[2].entries)

\* C10: when update() returns the snapshot holds exactly the domains parsed
\* in this call, none kept from the snapshot it replaced; when that is none,
\* the snapshot is empty, the count is 0 and the warning was logged.
C10_FullReplacement ==
    \A u \in Updaters :
        Finished(u) =>
            /\ TrieDomains(trie) = upd[u].contrib
            /\ (TrieDomains(hist.prev) \ upd[u].contrib) \cap TrieDomains(trie) = {}
            /\ upd[u].warned <=> upd[u].contrib = {}
            /\ upd[u].contrib = {} => (trie.term = {} /\ count = 0)

\* C10 witness: a call in which every source failed returns, having replaced
\* a non-empty snapshot by the empty one.
C10_Witness ==
    \E u \in Updaters :
        /\ Finished(u)
        /\ \A rec \in Records(u) : rec.raw = None \/ ~rec.ok
        /\ hist.prev.term # {}
        /\ trie.term = {}
        /\ count = 0
        /\ upd[u].warned

\* the entries inserted by the call of u so far, one per insertion
Inserted(u) ==
    LET log == upd[u].log
        F[k \in 0..Len(log)] == IF k = 0 THEN <<>> ELSE F[k - 1] \o log[k].entries
    IN  F[Len(log)]

\* the count has been stored by the call of u
Stored(u) == upd[u].pc \in {"wlock", "assign", "drop", "finish"}

\* C11: the count update() stores is the number of distinct domains it
\* inserted in that call: a domain inserted more than once, by one source or
\* by several, is counted once.
C11_CountIsDistinctDomains ==
    \A u \in Updaters :
        Stored(u) =>
            /\ count = Cardinality(Range(Inserted(u)))
            /\ count <= Len(Inserted(u))

\* C11 witness: a call has stored its count after two sources supplied the
\* same domains and one of them the same domain twice.
C11_Witness ==
    \E u \in Updaters :
        /\ Stored(u)
        /\ Len(upd[u].log) = 2
        /\ Range(upd[u].log[1].entries) \cap Range(upd[u].log[2].entries) # {}
        /\ Len(upd[u].log[1].entries) > Cardinality(Range(upd[u].log[1].entries))
        /\ count = 2
        /\ Len(Inserted(u)) = 6

(***************************************************************************)
(* Termination of update().  Every step of update() other than taking the  *)
(* write guard is an await that completes or a computation; contains()     *)
(* walks and releases its guard; tokio's RwLock queues its waiters in      *)
(* order, so a waiting writer is granted the guard once the guards before  *)
(* it are released.                                                        *)
(***************************************************************************)
Fairness ==
    /\ \A u \in Updaters : WF_vars(UpdateStep(u)) /\ SF_vars(WriteLock(u))
    /\ \A r \in Readers : WF_vars(ReadLock(r) \/ Walk(r) \/ Unlock(r))

\* the adlist of the calls whose termination is checked
LiveLists == {<<urlFile, urlA>>}

\* update() calls of one task, one after the other, with contains() calls
\* of another task at any time
NextLive ==
    \/ \E u \in {"u1"} : Call(u, LiveLists) \/ UpdateStep(u)
    \/ \E r \in Readers : StartContains(r) \/ ReadLock(r) \/ Walk(r) \/ Unlock(r)

SpecLive == Init /\ [][NextLive]_vars /\ Fairness

\* C12: every update() that has started returns, whatever its I/O gave, and
\* when it returns it has replaced the snapshot exactly once: never twice,
\* and never zero times.
C12_UpdateReturnsAfterOneSwap ==
    /\ [](\A u \in Updaters :
            /\ upd[u].swaps <= 1
            /\ Finished(u) => upd[u].swaps = 1)
    /\ \A u \in Updaters :
            (upd[u].pc = "mkdir") ~> (Finished(u) /\ upd[u].swaps = 1)

\* C12 witness: a call whose directory creation failed and whose source gave
\* nothing returns, having published the empty snapshot once.
C12_Witness ==
    \E u \in Updaters :
        /\ Finished(u)
        /\ upd[u].swaps = 1
        /\ ~dirOk
        /\ upd[u].contrib = {}
        /\ hist.lastSwap = upd[u].cid
        /\ trie.term = {}

\* the name as the specification states it: "/" replaced by "-", one leading
\* "-" removed if there is one, "--" and the query appended
RemoveLeadingDash(s) == IF s # <<>> /\ Head(s) = "-" THEN Tail(s) ELSE s

StatedCacheName(url) ==
    LET p == RemoveLeadingDash(ReplaceSlash(url.path))
    IN  IF IsSome(url.query) THEN p \o <<"-", "-">> \o Unwrap(url.query) ELSE p

\* C13 as stated: the cache file a remote source is resolved against is named
\* by its path with every "/" replaced by "-", a leading "-" removed only if
\* there is one, then "--" and the raw query if the locator has a query.
C13_CacheNameAsStated ==
    \A u \in Updaters : \A rec \in Records(u) :
        Remote(rec) => rec.cur.name = StatedCacheName(rec.url)

\* the steps that fetch, or check, read or write the cache file
CachePcs == {"exists1", "fetch", "write", "exists2", "readcache"}

\* C14: within one update() a remote source is fetched at most once, with no
\* retry after a failure; a local-file source is never fetched and its
\* resolution neither reads nor writes a cache file; when its read fails it
\* has no content.
C14_OneFetchNoCacheForFiles ==
    \A u \in Updaters :
        /\ upd[u].cur.fetches <= 1
        /\ upd[u].pc \in CachePcs => upd[u].adl[upd[u].idx].scheme # "file"
        /\ \A rec \in Records(u) :
             /\ rec.cur.fetches <= 1
             /\ ~Remote(rec) =>
                  /\ rec.cur.fetches = 0
                  /\ rec.cur.reads = 0
                  /\ rec.cur.wres = "none"
                  /\ rec.cur.via # "file" => (rec.raw = None /\ rec.entries = <<>>)

\* C14 witness: a call returns in which a local file could not be read and
\* the one fetch of a remote source failed with no cache to fall back on.
C14_Witness ==
    \E u \in Updaters :
        /\ Finished(u)
        /\ \E rec \in Records(u) : ~Remote(rec) /\ rec.raw = None
        /\ \E rec \in Records(u) :
             FetchFailed(rec) /\ rec.cur.fetches = 1 /\ rec.raw = None

\* C15: when the fetch of a remote source succeeds and the write of its cache
\* file fails, the source's content is still the fetched body: its entries
\* are those parsed from the body, and they are in the snapshot when update()
\* returns.
C15_BodySurvivesFailedWrite ==
    \A u \in Updaters : \A rec \in Records(u) :
        (Remote(rec) /\ rec.cur.kind = "ok" /\ rec.cur.wres # "ok") =>
            /\ rec.raw = rec.cur.body
            /\ rec.cur.via = "fetch"
            /\ rec.entries = EntriesOfText(rec.cur.body)
            /\ Finished(u) => Range(rec.entries) \subseteq TrieDomains(trie)

\* C15 witness: a call returns in which a fetched list could not be cached,
\* the cache file is still missing, and the list's domains are published.
C15_Witness ==
    \E u \in Updaters : \E rec \in Records(u) :
        /\ Finished(u)
        /\ rec.cur.kind = "ok"
        /\ rec.cur.wres = "fail"
        /\ rec.after = None
        /\ rec.entries # <<>>
        /\ Range(rec.entries) \subseteq TrieDomains(trie)

\* a is a strict ancestor of q: the labels of a are a proper suffix of q's
StrictAncestor(a, q) ==
    /\ Len(a) < Len(q)
    /\ SubSeq(q, Len(q) - Len(a) + 1, Len(q)) = a

\* the answer the specification states for a snapshot built from the set S
StatedContains(S, q, inc) ==
    q \in S \/ (inc /\ \E a \in S : StrictAncestor(a, q))

\* domains asked for: the listed ones, ancestors, subdomains and strangers
QueryDomains ==
    Domains \cup {<<"com">>, <<"net">>, <<"a", "net">>, <<"y", "x", "a", "com">>,
                  <<"y", "a", "com">>, <<"xa", "com">>}

\* C16: for the snapshot built from the set S of inserted domains,
\* contains(q, inc) is true exactly when q is in S, or inc is set and a
\* member of S is a strict ancestor of q; so an ancestor of a blocked domain
\* does not match, and a subdomain of one matches only with inc set.  This
\* is the answer of every query on the snapshot and the answer a contains()
\* call gives.
C16_ContainsIsExactOrAncestor ==
    /\ \A q \in QueryDomains, inc \in BOOLEAN :
         TrieContains(trie, q, inc) = StatedContains(hist.lastContrib, q, inc)
    /\ \A r \in Readers :
         rd[r].pc = "unlock" =>
             rd[r].res = StatedContains(hist.lastContrib, rd[r].q, rd[r].inc)

\* C16 witness: with only a.com blocked, a contains() call for x.a.com with
\* subdomains not included answers "not blocked", while x.a.com would match
\* with subdomains included and com matches in neither way.
C16_Witness ==
    \E r \in Readers :
        /\ rd[r].pc = "unlock"
        /\ rd[r].q = dXA
        /\ ~rd[r].inc
        /\ ~rd[r].res
        /\ hist.lastContrib = {dA}
        /\ TrieContains(trie, dXA, TRUE)
        /\ ~TrieContains(trie, <<"com">>, TRUE)

\* the steps of update() before it asks for the write guard
Building(u) ==
    upd[u].pc \in {"mkdir", "readfile", "exists1", "fetch", "write", "exists2",
                   "readcache", "parse", "store"}

\* C17: update() holds the write guard only for the replacement of the
\* snapshot: the guard is held exactly between its acquisition and its
\* release around the assignment, never while the call creates the
\* directory, reads, fetches, writes the cache, parses, inserts, compacts or
\* stores the count.  While a call is at those steps it has not changed the
\* snapshot, and when no call waits for or holds the write guard, a
\* contains() call waiting for the read guard can take it.
C17_WriteGuardOnlyForSwap ==
    /\ \A u \in Updaters :
         /\ wlock = Some(u) <=> upd[u].pc \in {"assign", "drop"}
         /\ (Building(u) \/ upd[u].pc = "wlock") =>
              (upd[u].swaps = 0 /\ hist.lastSwap # upd[u].cid)
    /\ IsSome(wlock) => Unwrap(wlock) \in Updaters
    /\ \A r \in Readers :
         (rd[r].pc = "rlock" /\ \A u \in Updaters : upd[u].pc \notin {"wlock", "assign", "drop"})
             => ENABLED ReadLock(r)

\* C17 witness: while one update() is fetching and the other has built a
\* different trie and not yet asked for the guard, a contains() call holds
\* the read guard on the previous snapshot.
C17_Witness ==
    \E r \in Readers, u \in Updaters, v \in Updaters :
        /\ upd[u].pc = "fetch"
        /\ upd[v].pc = "store"
        /\ upd[v].ltrie.term # trie.term
        /\ rd[r].pc = "walk"
        /\ r \in rlock
        /\ rd[r].snap = trie

\* C18: every successful fetch is followed by the write of the cache file
\* before the body is parsed, whether or not the body parses: a write that
\* succeeds leaves the fetched body as the cache content, also when the body
\* does not parse; and a source resolved from its cache file gets the
\* content the file had, parseable or not.
C18_CacheWrittenBeforeParse ==
    \A u \in Updaters :
        /\ (upd[u].pc = "parse" /\ upd[u].cur.kind = "ok") => upd[u].cur.wres # "none"
        /\ \A rec \in Records(u) :
             Remote(rec) =>
                 /\ rec.cur.kind = "ok" <=> rec.cur.wres # "none"
                 /\ rec.cur.wres = "ok" => rec.after = rec.cur.body
                 /\ rec.cur.via = "cache" => (rec.raw = rec.cur.before /\ rec.after = rec.raw)

\* a source of the call of u whose fetched body did not parse and was cached
CachedUnparsed(u) ==
    \E rec \in Records(u) :
        /\ rec.cur.kind = "ok"
        /\ rec.cur.wres = "ok"
        /\ ~rec.ok
        /\ rec.cur.before = Some("listAB")
        /\ rec.after = Some("garbage")

\* C18 witness: in one call a source whose fetch failed was resolved from a
\* cache file holding a body that does not parse, and contributed nothing,
\* and the fetched body of another source, which does not parse, replaced
\* the list its cache file held.
C18_Witness ==
    \E u \in Updaters :
        /\ Finished(u)
        /\ CachedUnparsed(u)
        /\ \E rec \in Records(u) :
             /\ FetchFailed(rec)
             /\ rec.cur.via = "cache"
             /\ rec.raw = Some("garbage")
             /\ ~rec.ok
             /\ rec.entries = <<>>

RemoteUrls == {v \in Urls : v.scheme # "file"}

\* C19: the cache file name is a function of the locator's path and query
\* only: remote locators that differ in scheme or host but not in path and
\* query have the same cache file, so a later one of them in a call is
\* resolved against the file the earlier one left, and when it is resolved
\* from the cache it gets that content.
C19_CacheSharedAcrossHosts ==
    /\ \A a \in RemoteUrls, b \in RemoteUrls :
         (a.path = b.path /\ a.query = b.query) => CacheName(a) = CacheName(b)
    /\ \A u \in Updaters :
         \A i \in 1..Len(upd[u].log), j \in 1..Len(upd[u].log) :
             LET ri == upd[u].log[i]
                 rj == upd[u].log[j]
             IN  (/\ j = i + 1
                  /\ Remote(ri) /\ Remote(rj)
                  /\ ri.url.path = rj.url.path
                  /\ ri.url.query = rj.url.query) =>
                     /\ rj.cur.name = ri.cur.name
                     /\ rj.cur.before = ri.after
                     /\ rj.cur.via = "cache" => rj.raw = ri.after

\* C19 witness: a call returns in which the list fetched from one host was
\* cached, the fetch from another host failed, and that second source
\* contributed the first host's list, read from the cache.
C19_Witness ==
    \E u \in Updaters :
        /\ Finished(u)
        /\ Len(upd[u].log) = 2
        /\ upd[u].log[1].url.host # upd[u].log[2].url.host
        /\ upd[u].log[1].cur.kind = "ok"
        /\ upd[u].log[1].cur.before = None
        /\ upd[u].log[1].cur.body = Some("listAB")
        /\ FetchFailed(upd[u].log[2])
        /\ upd[u].log[2].cur.via = "cache"
        /\ upd[u].log[2].raw = Some("listAB")
        /\ upd[u].log[2].entries # <<>>

\* C20: in a call that restores from the cache, a remote source whose cache
\* file exists is resolved by reading that file only: no request is made
\* for it, before or after the read, and when the read fails the source has
\* no content and contributes nothing.
C20_RestoreNeverFetches ==
    \A u \in Updaters :
        /\ (upd[u].rfc /\ upd[u].cur.existed) =>
              (upd[u].pc \notin {"fetch", "write"} /\ upd[u].cur.fetches = 0)
        /\ \A rec \in Records(u) :
             (Remote(rec) /\ upd[u].rfc /\ rec.cur.existed) =>
                 /\ rec.cur.fetches = 0
                 /\ rec.cur.kind = "none"
                 /\ rec.cur.wres = "none"
                 /\ rec.cur.reads = 1
                 /\ rec.cur.via # "cache" =>
                      (rec.raw = None /\ rec.entries = <<>> /\ rec.after = rec.cur.before)

\* C20 witness: a restoring call returns in which the read of an existing
\* cache file holding a list failed: no request was made and the source
\* contributed nothing.
C20_Witness ==
    \E u \in Updaters : \E rec \in Records(u) :
        /\ Finished(u)
        /\ upd[u].rfc
        /\ rec.cur.existed
        /\ rec.cur.before = Some("listAB")
        /\ rec.cur.reads = 1
        /\ rec.cur.fetches = 0
        /\ rec.raw = None
        /\ rec.entries = <<>>

====
